---------------------------- MODULE Spec2Model ----------------------------
(***************************************************************************)
(* A model of backend/main.py of the Quiz Editor backend: the account      *)
(* endpoints (/api/register, /api/login), the generation endpoint          *)
(* (/api/generate-questions) as it is served, and the earlier draft of the *)
(* generation endpoint with the usage ledger (the commented-out header at  *)
(* lines 225-249 and the body at lines 250-342).                           *)
(*                                                                         *)
(* Texts and byte strings are run-length encoded: a sequence of runs       *)
(* [c |-> unit, n |-> count], n >= 1, so that documents longer than the    *)
(* 15,000 character budget of the prompt are ordinary values.              *)
(***************************************************************************)
EXTENDS Integers, Sequences, FiniteSets, Bags, TLC

VARIABLES
    api_key,    \* os.getenv("GOOGLE_API_KEY"): "" when the variable is not set
    gen,        \* the last /api/generate-questions request handled, with its outcome
    users,      \* the User table, in insertion order (id = position)
    reg,        \* per worker thread: the register request between its query and its commit
    auth,       \* the last response of /api/register or /api/login
    usage,      \* the UsageLog table: a bag of rows (user_id, timestamp), the id left out
    now,        \* the current calendar month (of datetime.now() and datetime.utcnow())
    dev_email   \* os.getenv("DEV_MODE_USER_EMAIL"): "" when the variable is not set

vars == <<api_key, gen, users, reg, auth, usage, now, dev_email>>

----------------------------------------------------------------------------
(* Bounds of the model.                                                    *)

MaxRuns == 2        \* runs in an uploaded byte string
MaxPages == 2       \* pages of an uploaded PDF
MaxRespLen == 3     \* characters in the provider's response text
NumThreads == 2     \* worker threads serving /api/register concurrently
MaxMonth == 1       \* calendar months after the first one
MaxUsageRows == 52  \* rows of the UsageLog table

(* Program constants.                                                      *)

MaxSourceChars == 15000     \* extracted_text[:15000]
FreeLimit == 3              \* TIER_LIMITS['free']
ProLimit == 50              \* TIER_LIMITS['pro']

----------------------------------------------------------------------------
(* Run-length encoded strings.                                             *)

Run(c, n) == [c |-> c, n |-> n]

RECURSIVE TextLen(_)
TextLen(t) == IF t = <<>> THEN 0 ELSE Head(t).n + TextLen(Tail(t))

\* The i-th character (1-based) of t, for 1 <= i <= TextLen(t).
RECURSIVE CharAt(_, _)
CharAt(t, i) == IF i <= Head(t).n THEN Head(t).c ELSE CharAt(Tail(t), i - Head(t).n)

\* The indices at which a run of t starts.
RECURSIVE RunStarts(_, _)
RunStarts(t, from) ==
    IF t = <<>> THEN {} ELSE {from} \cup RunStarts(Tail(t), from + Head(t).n)

\* s and t are the same string (whatever their division into runs): both are
\* constant between two consecutive run starts of either.
SameText(s, t) ==
    /\ TextLen(s) = TextLen(t)
    /\ \A i \in RunStarts(s, 1) \cup RunStarts(t, 1) : CharAt(s, i) = CharAt(t, i)

\* str.isspace() on the characters of the model.
Whitespace == {" ", "\n"}

\* str.strip(): leading and trailing whitespace removed.
RECURSIVE LStrip(_)
LStrip(t) ==
    IF t = <<>> THEN <<>>
    ELSE IF Head(t).c \in Whitespace THEN LStrip(Tail(t)) ELSE t

RECURSIVE RStrip(_)
RStrip(t) ==
    IF t = <<>> THEN <<>>
    ELSE IF t[Len(t)].c \in Whitespace THEN RStrip(SubSeq(t, 1, Len(t) - 1)) ELSE t

Strip(t) == RStrip(LStrip(t))

\* The slice t[:k] of Python, k >= 0.
RECURSIVE Slice(_, _)
Slice(t, k) ==
    IF t = <<>> \/ k <= 0 THEN <<>>
    ELSE IF Head(t).n >= k THEN <<Run(Head(t).c, k)>>
    ELSE <<Head(t)>> \o Slice(Tail(t), k - Head(t).n)

----------------------------------------------------------------------------
(* bytes.decode('utf-8', errors=...) on the bytes of the model: 0x41 ("A") *)
(* and 0x20 (" ") are ASCII, 0xC3 leads a two-byte sequence, 0xA9 is a     *)
(* continuation byte (0xC3 0xA9 is U+00E9), 0xFF is valid nowhere.  Each   *)
(* invalid byte is one error: 'ignore' drops it, 'replace' puts U+FFFD in  *)
(* its place, 'strict' raises UnicodeDecodeError.                          *)

ByteAlphabet == {"41", "20", "C3", "A9", "FF"}

Decoded(text) == [ok |-> TRUE, text |-> text]
DecodeError == [ok |-> FALSE, text |-> <<>>]

\* What the error handler makes of k invalid bytes in a row.
InvalidBytes(k, errors) ==
    IF k = 0 THEN Decoded(<<>>)
    ELSE IF errors = "ignore" THEN Decoded(<<>>)
    ELSE IF errors = "replace" THEN Decoded(<<Run("U+FFFD", k)>>)
    ELSE DecodeError

Then(a, b) == IF a.ok /\ b.ok THEN Decoded(a.text \o b.text) ELSE DecodeError

\* pending = 1 when the last byte read is a 0xC3 still waiting for its continuation.
RECURSIVE DecodeRuns(_, _, _)
DecodeRuns(bs, pending, errors) ==
    IF bs = <<>> THEN InvalidBytes(pending, errors)
    ELSE LET b == Head(bs).c
             n == Head(bs).n
             rest(p) == DecodeRuns(Tail(bs), p, errors)
         IN  CASE b = "41" -> Then(InvalidBytes(pending, errors),
                                   Then(Decoded(<<Run("A", n)>>), rest(0)))
               [] b = "20" -> Then(InvalidBytes(pending, errors),
                                   Then(Decoded(<<Run(" ", n)>>), rest(0)))
               [] b = "FF" -> Then(InvalidBytes(pending + n, errors), rest(0))
               [] b = "C3" -> Then(InvalidBytes(pending + n - 1, errors), rest(1))
               [] b = "A9" -> IF pending = 1
                              THEN Then(Decoded(<<Run("U+00E9", 1)>>),
                                        Then(InvalidBytes(n - 1, errors), rest(0)))
                              ELSE Then(InvalidBytes(n, errors), rest(0))

UTF8Decode(bs, errors) == DecodeRuns(bs, 0, errors)

\* The number of invalid bytes of bs: the bytes no valid sequence accounts for.
RECURSIVE CountInvalid(_, _)
CountInvalid(bs, pending) ==
    IF bs = <<>> THEN pending
    ELSE LET b == Head(bs).c
             n == Head(bs).n
         IN  CASE b \in {"41", "20"} -> pending + CountInvalid(Tail(bs), 0)
               [] b = "FF" -> pending + n + CountInvalid(Tail(bs), 0)
               [] b = "C3" -> pending + n - 1 + CountInvalid(Tail(bs), 1)
               [] b = "A9" -> (IF pending = 1 THEN n - 1 ELSE n) + CountInvalid(Tail(bs), 0)

----------------------------------------------------------------------------
(* File names, as sequences of characters.                                 *)

\* str.lower() on the characters of the model.
LowerChar(c) ==
    CASE c = "P" -> "p" [] c = "D" -> "d" [] c = "F" -> "f"
      [] c = "T" -> "t" [] c = "X" -> "x" [] OTHER -> c

Lower(s) == [i \in 1..Len(s) |-> LowerChar(s[i])]

\* str.endswith(suffix).
EndsWith(s, suffix) ==
    /\ Len(s) >= Len(suffix)
    /\ SubSeq(s, Len(s) - Len(suffix) + 1, Len(s)) = suffix

DotPdf == <<".", "p", "d", "f">>
DotTxt == <<".", "t", "x", "t">>

----------------------------------------------------------------------------
(* json.loads on texts over the characters "[", "]", "," and "1": a value  *)
(* is an integer (a run of digits) or an array of values.                  *)

JsonAlphabet == {"[", "]", ",", "1"}

JsonInt(v) == [type |-> "int", v |-> v, items |-> <<>>]
JsonList(items) == [type |-> "list", v |-> 0, items |-> items]

Parsed(val, next) == [ok |-> TRUE, val |-> val, next |-> next]
ParseFailure == [ok |-> FALSE, val |-> JsonInt(0), next |-> 0]

\* The integer whose digits start at s[i], with acc the value of those already read.
RECURSIVE ParseDigits(_, _, _)
ParseDigits(s, i, acc) ==
    IF i <= Len(s) /\ s[i] = "1" THEN ParseDigits(s, i + 1, 10 * acc + 1)
    ELSE Parsed(JsonInt(acc), i)

\* The value that starts at s[i]; ParseItems reads the items of an array after
\* its "[" or after a ",", with acc the items already read.
RECURSIVE ParseValue(_, _)
RECURSIVE ParseItems(_, _, _)
ParseValue(s, i) ==
    IF i > Len(s) THEN ParseFailure
    ELSE IF s[i] = "1" THEN ParseDigits(s, i, 0)
    ELSE IF s[i] = "[" THEN
        IF i + 1 <= Len(s) /\ s[i + 1] = "]" THEN Parsed(JsonList(<<>>), i + 2)
        ELSE ParseItems(s, i + 1, <<>>)
    ELSE ParseFailure

ParseItems(s, i, acc) ==
    LET item == ParseValue(s, i)
    IN  IF ~item.ok \/ item.next > Len(s) THEN ParseFailure
        ELSE IF s[item.next] = "," THEN ParseItems(s, item.next + 1, Append(acc, item.val))
        ELSE IF s[item.next] = "]" THEN Parsed(JsonList(Append(acc, item.val)), item.next + 1)
        ELSE ParseFailure

\* json.loads(text): the whole text is one value, or JSONDecodeError (ok = FALSE).
JsonLoads(text) ==
    LET r == ParseValue(text, 1)
    IN  IF r.ok /\ r.next = Len(text) + 1 THEN r ELSE ParseFailure

----------------------------------------------------------------------------
(* POST /api/generate-questions, as served (lines 138-224).                *)

SeqsUpTo(S, k) == UNION {[1..m -> S] : m \in 0..k}

\* A message: a literal text and, for an f-string, the value it interpolates
\* (str the message of an exception, raw a text of the provider).
NoArg == [src |-> "none", str |-> "", raw |-> <<>>]
ExceptionArg(e) == [src |-> "exception", str |-> e, raw |-> <<>>]
ResponseTextArg(text) == [src |-> "response.text", str |-> "", raw |-> text]
Message(text, arg) == [text |-> text, arg |-> arg]

\* jsonify({"success": False, "message": ...})
Failure(text) == [success |-> FALSE, message |-> Message(text, NoArg)]

NoFitz == [opened |-> FALSE, ok |-> FALSE, pages |-> <<>>]
NotCalled == [kind |-> "not called", text |-> <<>>, error |-> ""]
NoPrompt ==
    [num_questions |-> "", subject |-> "", grade |-> "", question_types |-> "",
     notes |-> "", source_text |-> <<>>]

\* The handler's record of one request: the locals it has bound, the calls it
\* has made to the provider, what it wrote to the log, and its response
\* (returned_at is the line of the return statement, 0 while it runs).
Started(request) ==
    [request |-> request, returned_at |-> 0, fitz |-> NoFitz,
     extracted_text |-> <<>>, user_prompt |-> NoPrompt, calls |-> <<>>,
     provider |-> NotCalled, status |-> 0, body |-> <<>>, log |-> <<>>]

Return(st, line, status, body) ==
    [st EXCEPT !.returned_at = line, !.status = status, !.body = body]

Logged(st, entry) == [st EXCEPT !.log = Append(@, entry)]

\* A handler that never checks the credential.
CredentialNeverMissing(key) == FALSE

\* `if not api_key` (line 146): os.getenv gives None or "" without a key.
CredentialMissing(key) == key = ""

\* request.form.get(field, default)
FormGet(form, field, default) == IF field \in DOMAIN form THEN form[field] ELSE default

\* Lines 144-165: the credential, then the file part and the form fields.
ReadRequest(key, request) ==
    LET st == Started(request)
    IN  IF CredentialMissing(key)
        THEN Return(st, 147, 500,
                 [message |-> Message("Server configuration error: GOOGLE_API_KEY not found in .env", NoArg)])
        ELSE IF ~request.parse_ok
        THEN Return(Logged(st, Message("Error parsing form data: ", ExceptionArg("BadRequest"))),
                 165, 400, Failure("Invalid request data."))
        ELSE IF "document" \notin DOMAIN request.files
        THEN Return(st, 152, 400, Failure("No document file provided."))
        ELSE IF request.files.document.filename = <<>>
        THEN Return(st, 156, 400, Failure("No selected file."))
        ELSE st

IsPdfName(filename) == EndsWith(Lower(filename), DotPdf)
\* A comparison that forgets .lower().
IsTxtNameCaseSensitive(filename) == EndsWith(filename, DotTxt)

IsTxtName(filename) == EndsWith(Lower(filename), DotTxt)

\* errors='replace' in place of errors='ignore'.
DecodeTxtReplacing(bytes) == UTF8Decode(bytes, "replace")

\* file_bytes.decode('utf-8', errors='ignore') (line 176)
DecodeTxt(bytes) == UTF8Decode(bytes, "ignore")

\* extracted_text += page.get_text(), for page in doc (lines 173-174)
RECURSIVE ConcatPages(_)
ConcatPages(pages) == IF pages = <<>> THEN <<>> ELSE Head(pages) \o ConcatPages(Tail(pages))

\* `not extracted_text`, without the strip().
IsEmptyText(text) == text = <<>>

\* `not extracted_text.strip()` (line 180)
IsBlank(text) == Strip(text) = <<>>

ExtractionFailed(st, exception) ==
    Return(Logged(st, Message("Error extracting text from file: ", ExceptionArg(exception))),
        184, 500, Failure("Failed to process the uploaded document."))

\* The check of lines 180-181 on the text the handler has extracted.
CheckText(st, text) ==
    IF IsBlank(text)
    THEN Return([st EXCEPT !.extracted_text = text], 181, 400,
             Failure("Could not extract any text from the document."))
    ELSE [st EXCEPT !.extracted_text = text]

\* Lines 168-184, for a request ReadRequest has let through; fitz is what
\* fitz.open makes of the bytes when the handler opens them as a PDF.
ExtractText(st, fitz) ==
    LET file == st.request.files.document
    IN  IF ~file.stream.ok THEN ExtractionFailed(st, "OSError")
        ELSE IF IsPdfName(file.filename)
        THEN IF ~fitz.ok THEN ExtractionFailed([st EXCEPT !.fitz = fitz], "FileDataError")
             ELSE CheckText([st EXCEPT !.fitz = fitz], ConcatPages(fitz.pages))
        ELSE IF IsTxtName(file.filename)
        THEN LET text == DecodeTxt(file.stream.bytes)
             IN  IF ~text.ok THEN ExtractionFailed(st, "UnicodeDecodeError")
                 ELSE CheckText(st, text.text)
        ELSE Return(st, 178, 400, Failure("Unsupported file type. Please use PDF or TXT."))

\* A prompt that takes the whole text.
SourceTextWhole(extracted_text) == extracted_text

\* extracted_text[:15000] (line 195)
SourceText(extracted_text) == Slice(extracted_text, MaxSourceChars)

\* The f-string of lines 187-196.
UserPrompt(form, extracted_text) ==
    [num_questions |-> FormGet(form, "num_questions", "5"),
     subject |-> FormGet(form, "subject", "General"),
     grade |-> FormGet(form, "grade", "Unspecified"),
     question_types |-> FormGet(form, "question_types", "single, multi-select"),
     notes |-> FormGet(form, "notes", "None"),
     source_text |-> SourceText(extracted_text)]

\* client.models.generate_content(...) (lines 209-213)
GenerateContent(user_prompt) ==
    [model |-> "models/gemini-1.5-flash-latest",
     contents |-> <<"SYSTEM_PROMPT", user_prompt>>,
     config |-> [temperature |-> "0.7", max_output_tokens |-> 8192,
                 response_mime_type |-> "application/json"]]

\* A handler that puts the provider's text in its message.
OnJSONDecodeErrorEcho(st, text) ==
    Return(st, 221, 500,
        [success |-> FALSE,
         message |-> Message("The AI returned an invalid JSON format: ", ResponseTextArg(text))])

\* except json.JSONDecodeError (lines 219-221)
OnJSONDecodeError(st, text) ==
    Return(Logged(st, Message("Failed to decode JSON from Gemini response: ", ResponseTextArg(text))),
        221, 500, Failure("The AI returned an invalid JSON format. Please try again."))

\* except Exception as e (lines 222-224)
OnException(st, e) ==
    Return(Logged(st, Message("An error occurred with the Google API call: ", ExceptionArg(e))),
        224, 500,
        [success |-> FALSE,
         message |-> Message("An error occurred while generating questions: ", ExceptionArg(e))])

\* A handler that calls again when the provider raises.
ProviderCallsRetrying(user_prompt, outcome) ==
    IF outcome.kind = "raises"
    THEN <<GenerateContent(user_prompt), GenerateContent(user_prompt)>>
    ELSE <<GenerateContent(user_prompt)>>

\* The provider calls the handler makes for one prompt, whatever their outcome.
ProviderCalls(user_prompt, outcome) == <<GenerateContent(user_prompt)>>

\* Lines 187-224, for a request whose text was extracted; outcome is what the
\* provider does with the call: it raises, or it returns a response whose
\* text is a string or None.
InvokeProvider(st0, outcome) ==
    LET prompt == UserPrompt(st0.request.form, st0.extracted_text)
        st == [st0 EXCEPT !.user_prompt = prompt,
                          !.calls = ProviderCalls(prompt, outcome),
                          !.provider = outcome]
    IN  IF outcome.kind = "raises" THEN OnException(st, outcome.error)
        ELSE IF outcome.kind = "no text"
        THEN OnException(st, "the JSON object must be str, bytes or bytearray, not NoneType")
        ELSE LET parsed == JsonLoads(outcome.text)
             IN  IF parsed.ok
                 THEN Return(st, 217, 200, [success |-> TRUE, questions |-> parsed.val])
                 ELSE OnJSONDecodeError(st, outcome.text)

\* One request, served from its first line to its return; the worker serves one
\* request at a time.
generate_questions(requests, fitzViews, outcomes) ==
    /\ gen.returned_at = 0
    /\ \E request \in requests :
          LET read == ReadRequest(api_key, request)
          IN  IF read.returned_at # 0 THEN gen' = read
              ELSE \E fitz \in (IF IsPdfName(request.files.document.filename)
                                THEN fitzViews ELSE {NoFitz}) :
                      LET extracted == ExtractText(read, fitz)
                      IN  IF extracted.returned_at # 0 THEN gen' = extracted
                          ELSE \E outcome \in outcomes :
                                  gen' = InvokeProvider(extracted, outcome)
    /\ UNCHANGED <<api_key, users, reg, auth, usage, now, dev_email>>

\* The response leaves and the worker is free for the next request.
SendResponse ==
    /\ gen.returned_at # 0
    /\ gen' = Started([parse_ok |-> TRUE, form |-> <<>>, files |-> <<>>])
    /\ UNCHANGED <<api_key, users, reg, auth, usage, now, dev_email>>

----------------------------------------------------------------------------
(* The requests, PDF documents and provider outcomes of the model.         *)

RunCounts == {1, MaxSourceChars - 1}

ByteStrings == SeqsUpTo({Run(b, n) : b \in ByteAlphabet, n \in RunCounts}, MaxRuns)

ReadFault == [ok |-> FALSE, bytes |-> <<>>]
Streams == {ReadFault} \cup {[ok |-> TRUE, bytes |-> bs] : bs \in ByteStrings}

\* The bytes of a PDF are opaque to the handler: fitz alone reads them.
PdfStreams == {ReadFault, [ok |-> TRUE, bytes |-> <<Run("41", 1)>>]}

Extensions ==
    {DotPdf, <<".", "P", "D", "F">>, DotTxt, <<".", "T", "x", "t">>,
     <<".", "d", "o", "c">>, <<"p", "d", "f">>, <<>>}

FileNames == {stem \o ext : stem \in {<<>>, <<"q">>}, ext \in Extensions}

AllFields == {"subject", "grade", "notes", "num_questions", "question_types"}
Forms == {<<>>, [f \in AllFields |-> "x"]}

Upload(filename, stream, form) ==
    [parse_ok |-> TRUE, form |-> form,
     files |-> [document |-> [filename |-> filename, stream |-> stream]]]

Requests ==
    {[parse_ok |-> ok, form |-> form, files |-> <<>>] : ok \in BOOLEAN, form \in Forms}
    \cup {Upload(f, s, form) : f \in {n \in FileNames : IsPdfName(n)},
                               s \in PdfStreams, form \in Forms}
    \cup {Upload(f, s, form) : f \in {n \in FileNames : ~IsPdfName(n)},
                               s \in Streams, form \in Forms}

PageTexts == {<<>>} \cup {<<Run(c, n)>> : c \in {"A", " "}, n \in RunCounts}

FitzViews ==
    {[opened |-> TRUE, ok |-> FALSE, pages |-> <<>>]}
    \cup {[opened |-> TRUE, ok |-> TRUE, pages |-> p] : p \in SeqsUpTo(PageTexts, MaxPages)}

ResponseText(text) == [kind |-> "text", text |-> text, error |-> ""]
Raises(e) == [kind |-> "raises", text |-> <<>>, error |-> e]
NoText == [kind |-> "no text", text |-> <<>>, error |-> ""]

ProviderOutcomes ==
    {ResponseText(t) : t \in SeqsUpTo(JsonAlphabet, MaxRespLen)}
    \cup {NoText, Raises("429 RESOURCE_EXHAUSTED"), Raises("401 UNAUTHENTICATED")}

\* A few of each, to go with every value of the others.
SampleOutcomes == {ResponseText(<<"[", "1", "]">>), ResponseText(<<"]">>), Raises("429 RESOURCE_EXHAUSTED")}
SampleRequests ==
    {Upload(<<"q">> \o DotTxt, [ok |-> TRUE, bytes |-> <<Run("41", 1)>>], <<>>),
     Upload(<<"q">> \o DotPdf, [ok |-> TRUE, bytes |-> <<Run("41", 1)>>], [f \in AllFields |-> "x"])}
SampleFitzViews == {[opened |-> TRUE, ok |-> TRUE, pages |-> <<<<Run("A", 1)>>>>]}

----------------------------------------------------------------------------
(* POST /api/register and POST /api/login (lines 56-75).  The server runs  *)
(* handlers on several threads (waitress), so another request can be       *)
(* served between the query of register (line 59) and its commit (line     *)
(* 65); the User table keeps email unique (line 39).                       *)

Threads == 1..NumThreads

Emails == {"a@x", "b@x"}
Passwords == {"pw1", "pw2"}

\* The JSON objects a client may send: either field may be missing.
JsonBodies ==
    {<<>>} \cup {[email |-> e] : e \in Emails} \cup {[password |-> p] : p \in Passwords}
    \cup {[email |-> e, password |-> p] : e \in Emails, p \in Passwords}

\* bcrypt.generate_password_hash / bcrypt.check_password_hash: the hash holds its
\* salt, and a password matches when it hashes to the same digest under that salt.
Salts == {"$2b$12$salt"}
PasswordHash(salt, password) == [salt |-> salt, digest |-> <<salt, password>>]
CheckPasswordHash(hash, password) == hash = PasswordHash(hash.salt, password)

\* A JSON response, and what Flask makes of an exception no handler catches: its
\* own 500 page, which is not JSON.
JsonResponse(endpoint, status, body) ==
    [endpoint |-> endpoint, status |-> status, json |-> TRUE, body |-> body, fault |-> ""]
UnhandledFault(endpoint, exception) ==
    [endpoint |-> endpoint, status |-> 500, json |-> FALSE, body |-> <<>>, fault |-> exception]
NoResponse == JsonResponse("none", 0, <<>>)

NoUser == [email |-> "", password_hash |-> PasswordHash("", ""), subscription_tier |-> ""]
Idle == [pc |-> "idle", user |-> NoUser]

\* A query that finds no row.
EmailNeverTaken(email) == FALSE

\* User.query.filter_by(email=...).first() is not None
EmailTaken(email) == \E i \in 1..Len(users) : users[i].email = email

\* User.query.filter_by(email=...).first(), when there is one
UserByEmail(email) == users[CHOOSE i \in 1..Len(users) : users[i].email = email]

\* User(email=..., password_hash=...) (line 63), with the column's default tier.
NewUser(email, password_hash) ==
    [email |-> email, password_hash |-> password_hash, subscription_tier |-> "free"]

\* Lines 58-64 of register, on thread t: the query, the hash, and the new User
\* added to the session.
RegisterQuery(t, data) ==
    /\ reg[t].pc = "idle"
    /\ IF "email" \notin DOMAIN data
       THEN auth' = UnhandledFault("register", "KeyError: 'email'") /\ reg' = reg
       ELSE IF EmailTaken(data.email)
       THEN /\ auth' = JsonResponse("register", 409, [message |-> "Email already exists"])
            /\ reg' = reg
       ELSE IF "password" \notin DOMAIN data
       THEN auth' = UnhandledFault("register", "KeyError: 'password'") /\ reg' = reg
       ELSE \E salt \in Salts :
               /\ reg' = [reg EXCEPT ![t] =
                      [pc |-> "commit",
                       user |-> NewUser(data.email, PasswordHash(salt, data.password))]]
               /\ auth' = auth
    /\ UNCHANGED <<api_key, gen, users, usage, now, dev_email>>

\* Lines 65-66 of register, on thread t: the commit inserts the row, with the
\* next id, unless the unique constraint on email (line 39) refuses it; the
\* IntegrityError is caught by no handler.
RegisterCommit(t) ==
    /\ reg[t].pc = "commit"
    /\ IF EmailTaken(reg[t].user.email)
       THEN /\ auth' = UnhandledFault("register", "IntegrityError")
            /\ users' = users
       ELSE /\ users' = Append(users, [id |-> Len(users) + 1] @@ reg[t].user)
            /\ auth' = JsonResponse("register", 201, [message |-> "User registered successfully"])
    /\ reg' = [reg EXCEPT ![t] = Idle]
    /\ UNCHANGED <<api_key, gen, usage, now, dev_email>>

\* login (lines 69-75): one query, no write.
login(data) ==
    /\ IF "email" \notin DOMAIN data
       THEN auth' = UnhandledFault("login", "KeyError: 'email'")
       ELSE IF ~EmailTaken(data.email)
       THEN auth' = JsonResponse("login", 401, [message |-> "Invalid credentials"])
       ELSE IF "password" \notin DOMAIN data
       THEN auth' = UnhandledFault("login", "KeyError: 'password'")
       ELSE LET user == UserByEmail(data.email)
            IN  IF CheckPasswordHash(user.password_hash, data.password)
                THEN auth' = JsonResponse("login", 200,
                         [access_token |-> [identity |-> [id |-> user.id, email |-> user.email]]])
                ELSE auth' = JsonResponse("login", 401, [message |-> "Invalid credentials"])
    /\ UNCHANGED <<api_key, gen, users, reg, usage, now, dev_email>>

----------------------------------------------------------------------------
(* The draft of the generation endpoint with the usage ledger: the header  *)
(* of lines 225-249 (commented out in the file) and the body of lines      *)
(* 250-342.  The served handler (lines 138-224) returns on every path, so  *)
(* this body never runs after it; it is modelled as the handler it was     *)
(* written as.  Timestamps are kept to the month.                          *)

\* TIER_LIMITS.get(user.subscription_tier, 0) (line 243)
TierLimit(tier) ==
    CASE tier = "free" -> FreeLimit [] tier = "pro" -> ProLimit [] OTHER -> 0

\* UsageLog.query.filter(user_id == user.id, timestamp >= start_of_month).count()
\* (lines 237-241)
RECURSIVE CountRows(_, _)
CountRows(table, rows) ==
    IF rows = {} THEN 0
    ELSE LET r == CHOOSE x \in rows : TRUE
         IN  CopiesIn(r, table) + CountRows(table, rows \ {r})

UsageCount(user_id, start_of_month) ==
    CountRows(usage, {r \in BagToSet(usage) :
                         r.user_id = user_id /\ r.timestamp >= start_of_month})

\* A comparison that lets the request at the ceiling through.
OverLimitOffByOne(usage_count, limit) == usage_count > limit

\* `usage_count >= limit` (line 245)
OverLimit(usage_count, limit) == usage_count >= limit

\* is_dev_user (line 233)
IsDevUser(user) == dev_email = user.email

\* UsageLog(user_id=user.id) (line 332), with the default timestamp.
NewUsageLog(user) == [user_id |-> user.id, timestamp |-> now]

DraftStarted(user, request) ==
    Started(request) @@ [user_id |-> user.id, is_dev_user |-> IsDevUser(user)]

NotRead == [parse_ok |-> TRUE, form |-> <<>>, files |-> <<>>]

\* Lines 227-246: the monthly count against the ceiling of the user's tier.
CheckUsage(user) ==
    LET st == DraftStarted(user, NotRead)
    IN  IF ~IsDevUser(user) /\ OverLimit(UsageCount(user.id, now), TierLimit(user.subscription_tier))
        THEN Return(st, 246, 429, Failure("You have reached your monthly generation limit."))
        ELSE st

\* Lines 249-272 of the draft.
DraftReadRequest(user, key, request) ==
    LET st == DraftStarted(user, request)
    IN  IF CredentialMissing(key)
        THEN Return(st, 251, 500,
                 [message |-> Message("Server configuration error: API key not found.", NoArg)])
        ELSE IF ~request.parse_ok
        THEN Return(Logged(st, Message("Error parsing form data: ", ExceptionArg("BadRequest"))),
                 272, 400, Failure("Invalid request data."))
        ELSE IF "document" \notin DOMAIN request.files
        THEN Return(st, 257, 400, Failure("No document file provided."))
        ELSE IF request.files.document.filename = <<>>
        THEN Return(st, 261, 400, Failure("No selected file."))
        ELSE st

DraftExtractionFailed(st, exception) ==
    Return(Logged(st, Message("Error extracting text from file: ", ExceptionArg(exception))),
        292, 500, Failure("Failed to process the uploaded document."))

DraftCheckText(st, text) ==
    IF IsBlank(text)
    THEN Return([st EXCEPT !.extracted_text = text], 288, 400,
             Failure("Could not extract any text from the document."))
    ELSE [st EXCEPT !.extracted_text = text]

\* Lines 275-292 of the draft: as lines 168-184, with a strict decode (line 283).
DraftExtractText(st, fitz) ==
    LET file == st.request.files.document
    IN  IF ~file.stream.ok THEN DraftExtractionFailed(st, "OSError")
        ELSE IF IsPdfName(file.filename)
        THEN IF ~fitz.ok THEN DraftExtractionFailed([st EXCEPT !.fitz = fitz], "FileDataError")
             ELSE DraftCheckText([st EXCEPT !.fitz = fitz], ConcatPages(fitz.pages))
        ELSE IF IsTxtName(file.filename)
        THEN LET text == UTF8Decode(file.stream.bytes, "strict")
             IN  IF ~text.ok THEN DraftExtractionFailed(st, "UnicodeDecodeError")
                 ELSE DraftCheckText(st, text.text)
        ELSE Return(st, 285, 400, Failure("Unsupported file type. Please use PDF or TXT."))

\* model.generate_content(...) (lines 313-326)
DraftGenerateContent(user_prompt) ==
    [model |-> "gemini-2.0-flash-lite",
     contents |-> <<"SYSTEM_PROMPT", user_prompt>>,
     config |-> [temperature |-> "0.7", max_output_tokens |-> 8192,
                 response_mime_type |-> "application/json"]]

\* The placeholder the draft returns (line 342).
DummyQuestions == <<[id |-> "dummy_q_1", type |-> "single"]>>

\* Whether lines 308-329 run to the end of json.loads.
Generated(outcome) == outcome.kind = "text" /\ JsonLoads(outcome.text).ok

\* Lines 331-334 are reached, and `not is_dev_user` holds.
RecordsUsage(st, outcome) == Generated(outcome) /\ ~st.is_dev_user

\* Lines 295-342 of the draft: the prompt, the provider call, the usage row;
\* `except Exception: pass`, and the placeholder whatever happened.
DraftInvokeProvider(st0, outcome) ==
    LET prompt == UserPrompt(st0.request.form, st0.extracted_text)
        st == [st0 EXCEPT !.user_prompt = prompt,
                          !.calls = <<DraftGenerateContent(prompt)>>,
                          !.provider = outcome]
    IN  Return(st, 342, 200, [success |-> TRUE, questions |-> DummyQuestions])

\* One request of the user with id user_id, served by the draft.
draft_generate_questions(user_id, requests, fitzViews, outcomes) ==
    /\ gen.returned_at = 0
    /\ BagCardinality(usage) < MaxUsageRows
    /\ LET user == users[user_id]
           checked == CheckUsage(user)
       IN  IF checked.returned_at # 0 THEN gen' = checked /\ usage' = usage
           ELSE \E request \in requests :
              LET read == DraftReadRequest(user, api_key, request)
              IN  IF read.returned_at # 0 THEN gen' = read /\ usage' = usage
                  ELSE \E fitz \in (IF IsPdfName(request.files.document.filename)
                                    THEN fitzViews ELSE {NoFitz}) :
                      LET extracted == DraftExtractText(read, fitz)
                      IN  IF extracted.returned_at # 0 THEN gen' = extracted /\ usage' = usage
                          ELSE \E outcome \in outcomes :
                                  /\ gen' = DraftInvokeProvider(extracted, outcome)
                                  /\ usage' = IF RecordsUsage(extracted, outcome)
                                              THEN usage (+) SetToBag({NewUsageLog(user)})
                                              ELSE usage
    /\ UNCHANGED <<api_key, users, reg, auth, now, dev_email>>

\* The calendar moves to the next month.
NextMonth ==
    /\ now < MaxMonth
    /\ now' = now + 1
    /\ UNCHANGED <<api_key, gen, users, reg, auth, usage, dev_email>>

----------------------------------------------------------------------------
NoRequest == Started([parse_ok |-> TRUE, form |-> <<>>, files |-> <<>>])

Init ==
    /\ api_key \in {"", "AIza"}
    /\ gen = NoRequest
    /\ users = <<>>
    /\ reg = [t \in Threads |-> Idle]
    /\ auth = NoResponse
    /\ usage = EmptyBag
    /\ now = 0
    /\ dev_email = ""

GenerateFromDocuments == generate_questions(Requests, FitzViews, SampleOutcomes)
GenerateFromResponses == generate_questions(SampleRequests, SampleFitzViews, ProviderOutcomes)

Next == GenerateFromDocuments \/ GenerateFromResponses \/ SendResponse

Spec == Init /\ [][Next]_vars

Register == \E t \in Threads, data \in JsonBodies : RegisterQuery(t, data)
Commit == \E t \in Threads : RegisterCommit(t)
Login == \E data \in JsonBodies : login(data)

\* The ledger: a table of one or two registered users, one of them possibly the
\* developer of DEV_MODE_USER_EMAIL; the tier pro is set outside this code.
Account(id, email, tier) ==
    [id |-> id, email |-> email, password_hash |-> PasswordHash("$2b$12$salt", "pw1"),
     subscription_tier |-> tier]

LedgerRequests ==
    {Upload(<<"q">> \o DotTxt, [ok |-> TRUE, bytes |-> <<Run("41", 1)>>], <<>>),
     Upload(<<"q">> \o DotTxt, [ok |-> TRUE, bytes |-> <<Run("FF", 1)>>], <<>>),
     Upload(<<"q", ".", "d", "o", "c">>, [ok |-> TRUE, bytes |-> <<Run("41", 1)>>], <<>>)}

InitLedger ==
    /\ api_key \in {"", "AIza"}
    /\ gen = NoRequest
    /\ users \in {<<Account(1, "a@x", "free")>>, <<Account(1, "a@x", "pro")>>,
                  <<Account(1, "a@x", "free"), Account(2, "b@x", "free")>>}
    /\ reg = [t \in Threads |-> Idle]
    /\ auth = NoResponse
    /\ usage = EmptyBag
    /\ now = 0
    /\ dev_email \in {"", "a@x"}

GenerateWithLedger ==
    \E user_id \in 1..Len(users) :
        draft_generate_questions(user_id, LedgerRequests, SampleFitzViews, SampleOutcomes)

NextLedger == GenerateWithLedger \/ SendResponse \/ NextMonth

SpecLedger == InitLedger /\ [][NextLedger]_vars

NextAuth == Register \/ Commit \/ Login

SpecAuth == Init /\ [][NextAuth]_vars

----------------------------------------------------------------------------
(* Properties of the generation endpoint.                                  *)

Done == gen.returned_at # 0
HasDocument == "document" \in DOMAIN gen.request.files
Document == gen.request.files.document

\* name ends, whatever the case of its letters, in the four characters of ext.
HasExtension(name, ext) ==
    /\ Len(name) >= 4
    /\ \A i \in 1..4 : LowerChar(name[Len(name) - 4 + i]) = ext[i]

SupportedName(name) == HasExtension(name, DotPdf) \/ HasExtension(name, DotTxt)

\* The handler got as far as reading the file: the credential is there and the
\* request carries a document with a name.
ReachedFile ==
    /\ Done /\ api_key # "" /\ gen.request.parse_ok
    /\ HasDocument /\ Document.filename # <<>>

\* The return statements after the text checks have passed.
ProviderLines == {217, 221, 224}

AllWhitespace(text) == \A i \in RunStarts(text, 1) : CharAt(text, i) \in Whitespace

\* A failure body: success false and a message, nothing else.
IsFailureBody(body) ==
    /\ DOMAIN body = {"success", "message"}
    /\ body.success = FALSE
    /\ body.message.text # ""

\* C1, as claimed: every request whose uploaded file name ends neither in .pdf
\* nor in .txt fails with HTTP 400 and success:false, without a provider call.
C1_AsClaimed ==
    (Done /\ HasDocument /\ ~SupportedName(Document.filename))
        => /\ gen.status = 400
           /\ IsFailureBody(gen.body)
           /\ gen.calls = <<>>

\* C1, amended: a request whose credential is configured and whose document has a
\* non-empty name and readable content fails with UnsupportedFormat (HTTP 400,
\* success:false) when the name ends, case-insensitively, neither in .pdf nor in
\* .txt; no request with such a name reaches the provider; and when the name does
\* end in .pdf or .txt, ingestion ends with non-empty text or with one of the two
\* error responses EmptyDocument (400) and extraction failure (500).
C1_UnsupportedFormat ==
    /\ (Done /\ HasDocument /\ ~SupportedName(Document.filename)) => gen.calls = <<>>
    /\ (ReachedFile /\ Document.stream.ok /\ ~SupportedName(Document.filename))
          => /\ gen.returned_at = 178
             /\ gen.status = 400
             /\ gen.body = Failure("Unsupported file type. Please use PDF or TXT.")
    /\ (ReachedFile /\ SupportedName(Document.filename))
          => \/ /\ gen.returned_at \in ProviderLines
                /\ TextLen(gen.extracted_text) > 0
                /\ ~AllWhitespace(gen.extracted_text)
             \/ /\ gen.returned_at = 181 /\ gen.status = 400 /\ IsFailureBody(gen.body)
             \/ /\ gen.returned_at = 184 /\ gen.status = 500 /\ IsFailureBody(gen.body)

C1_Witness ==
    /\ ReachedFile /\ Document.stream.ok
    /\ Document.filename = <<"q", ".", "d", "o", "c">>
    /\ gen.returned_at = 178

\* C2, as claimed: without a credential every request fails with HTTP 401 before
\* any provider call.
C2_AsClaimed ==
    (Done /\ api_key = "") => (gen.status = 401 /\ gen.calls = <<>>)

\* C2, amended: without a credential every request fails with MissingCredential
\* before the file is read or the provider called, whatever the file and the form
\* fields; the response is HTTP 500 with a message and no success field.
C2_MissingCredential ==
    (Done /\ api_key = "")
        => /\ gen.returned_at = 147
           /\ gen.status = 500
           /\ DOMAIN gen.body = {"message"}
           /\ gen.body.message.text # ""
           /\ gen.calls = <<>>
           /\ ~gen.fitz.opened

C2_Witness ==
    /\ Done /\ api_key = "" /\ HasDocument
    /\ Document.filename = <<"q", ".", "t", "x", "t">>
    /\ Document.stream.ok /\ Document.stream.bytes # <<>>
    /\ gen.status = 500

\* C6: a provider text that parses as JSON is answered with HTTP 200, success:true
\* and the whole parsed value as questions ("[]" gives the empty list); a text that
\* does not parse is answered with HTTP 500, success:false and the fixed message,
\* with no question and nothing of the provider's text in the body.
C6_ResponseValidation ==
    (Done /\ gen.provider.kind = "text")
        => /\ JsonLoads(gen.provider.text).ok
              => /\ gen.status = 200
                 /\ gen.body = [success |-> TRUE, questions |-> JsonLoads(gen.provider.text).val]
           /\ gen.provider.text = <<"[", "]">>
              => (gen.status = 200 /\ gen.body.questions = JsonList(<<>>))
           /\ ~JsonLoads(gen.provider.text).ok
              => /\ gen.status = 500
                 /\ gen.body = Failure("The AI returned an invalid JSON format. Please try again.")
           /\ gen.provider.text \in {<<>>, <<"]">>, <<"[", "1">>, <<"1", ",", "1">>}
              => gen.status = 500

C6_Witness ==
    /\ Done /\ gen.provider = ResponseText(<<"[", "1">>)
    /\ gen.returned_at = 221
    /\ gen.log # <<>> /\ gen.log[Len(gen.log)].arg.raw = <<"[", "1">>

\* C7: whenever the text extracted from the document, PDF or TXT, is empty or all
\* whitespace, the request fails with EmptyDocument (HTTP 400) and the provider is
\* not called.
C7_EmptyDocument ==
    (Done /\ gen.returned_at \in {181} \cup ProviderLines /\ AllWhitespace(gen.extracted_text))
        => /\ gen.returned_at = 181
           /\ gen.status = 400
           /\ gen.body = Failure("Could not extract any text from the document.")
           /\ gen.calls = <<>>

C7_Witness ==
    /\ Done /\ gen.fitz.opened /\ gen.fitz.ok
    /\ Len(gen.fitz.pages) = 2
    /\ TextLen(gen.extracted_text) > 1
    /\ gen.returned_at = 181

\* C8: the document text in the user prompt sent to the provider is the first
\* 15,000 characters of the extracted text when that is longer, and the whole
\* text otherwise.
C8_Truncation ==
    (Done /\ gen.calls # <<>>)
        => LET sent == gen.calls[1].contents[2].source_text
               text == gen.extracted_text
           IN  /\ TextLen(text) > MaxSourceChars => TextLen(sent) = MaxSourceChars
               /\ TextLen(text) <= MaxSourceChars => TextLen(sent) = TextLen(text)
               /\ \A i \in RunStarts(sent, 1) \cup RunStarts(text, 1) :
                      i <= TextLen(sent) => CharAt(sent, i) = CharAt(text, i)

C8_Witness ==
    /\ Done /\ gen.calls # <<>>
    /\ TextLen(gen.extracted_text) > MaxSourceChars
    /\ Len(gen.extracted_text) = 2
    /\ gen.extracted_text[1].c # gen.extracted_text[2].c

\* C9: a request calls the provider at most once: once when the credential, file
\* and text checks pass, never when one of them fails; an error of the provider is
\* not retried and is returned as ProviderError (HTTP 500, success:false) with the
\* error's message.
C9_SingleCall ==
    Done => /\ Len(gen.calls) <= 1
            /\ Len(gen.calls) = 1 <=> gen.returned_at \in ProviderLines
            /\ (\/ api_key = ""
                \/ ~gen.request.parse_ok
                \/ ~HasDocument
                \/ Document.filename = <<>>
                \/ ~Document.stream.ok
                \/ ~SupportedName(Document.filename)
                \/ (gen.fitz.opened /\ ~gen.fitz.ok)
                \/ AllWhitespace(gen.extracted_text)) <=> gen.calls = <<>>
            /\ gen.provider.kind = "raises"
                  => /\ Len(gen.calls) = 1
                     /\ gen.status = 500
                     /\ gen.body.success = FALSE
                     /\ gen.body.message.arg = ExceptionArg(gen.provider.error)

C9_Witness ==
    /\ Done /\ gen.provider = Raises("429 RESOURCE_EXHAUSTED")
    /\ Len(gen.calls) = 1 /\ gen.status = 500

\* The bytes of bs, and whether none of them belongs to a valid sequence.
ByteLen(bs) == TextLen(bs)
OnlyInvalidBytes(bs) == bs # <<>> /\ CountInvalid(bs, 0) = ByteLen(bs)

\* text without its U+FFFD characters.
RECURSIVE WithoutReplacements(_)
WithoutReplacements(text) ==
    IF text = <<>> THEN <<>>
    ELSE IF Head(text).c = "U+FFFD" THEN WithoutReplacements(Tail(text))
    ELSE <<Head(text)>> \o WithoutReplacements(Tail(text))

TxtRead == ReachedFile /\ Document.stream.ok /\ HasExtension(Document.filename, DotTxt)

\* C10, as claimed: in a .txt upload every invalid byte becomes a replacement
\* character of the extracted text, so a file of invalid bytes alone does not
\* fail with EmptyDocument.
C10_AsClaimed ==
    TxtRead
        => /\ gen.returned_at # 184
           /\ SameText(gen.extracted_text, UTF8Decode(Document.stream.bytes, "replace").text)
           /\ OnlyInvalidBytes(Document.stream.bytes) => gen.returned_at # 181

\* C10, amended: in a .txt upload every invalid UTF-8 byte sequence is dropped
\* from the extracted text rather than raising or being replaced, so a .txt file
\* made only of invalid byte sequences yields the empty text and fails with
\* EmptyDocument.
C10_InvalidBytesDropped ==
    TxtRead
        => /\ gen.returned_at # 184
           /\ SameText(gen.extracted_text,
                  WithoutReplacements(UTF8Decode(Document.stream.bytes, "replace").text))
           /\ TextLen(gen.extracted_text)
                 = TextLen(UTF8Decode(Document.stream.bytes, "replace").text)
                      - CountInvalid(Document.stream.bytes, 0)
           /\ OnlyInvalidBytes(Document.stream.bytes)
                 => (gen.extracted_text = <<>> /\ gen.returned_at = 181 /\ gen.status = 400)

C10_Witness ==
    /\ TxtRead
    /\ Document.stream.bytes = <<Run("FF", 1), Run("A9", 1)>>
    /\ gen.returned_at = 181

----------------------------------------------------------------------------
(* Properties of the account endpoints.                                    *)

NoDupEmails ==
    \A i, j \in 1..Len(users) : users[i].email = users[j].email => i = j

\* C3, as claimed: every failure of /api/register, /api/login and
\* /api/generate-questions is a JSON body with a message and a status code, with
\* success:false on the generation endpoint, and no exception leaves a handler
\* uncaught.
C3_AsClaimed ==
    /\ (auth.endpoint # "none" /\ auth.status >= 400)
          => /\ auth.fault = ""
             /\ auth.json
             /\ "message" \in DOMAIN auth.body
    /\ (Done /\ gen.status >= 400) => IsFailureBody(gen.body)

\* C5: no two User rows ever share an email; a register request whose email is in
\* the table is answered 409 and changes nothing; and the table changes only by
\* one new row, appended for a register request, with an email that was not in
\* the table and the tier free.
C5_UniqueEmail ==
    [][/\ NoDupEmails'
       /\ \A t \in Threads, data \in JsonBodies :
             (/\ "email" \in DOMAIN data
              /\ \E i \in 1..Len(users) : users[i].email = data.email
              /\ RegisterQuery(t, data))
                 => /\ auth' = JsonResponse("register", 409, [message |-> "Email already exists"])
                    /\ users' = users
                    /\ reg' = reg
       /\ users' # users
             => /\ Len(users') = Len(users) + 1
                /\ SubSeq(users', 1, Len(users)) = users
                /\ users'[Len(users')].subscription_tier = "free"
                /\ users'[Len(users')].id = Len(users')
                /\ \A i \in 1..Len(users) : users[i].email # users'[Len(users')].email
                /\ \E t \in Threads : /\ reg[t].pc = "commit"
                                      /\ reg[t].user.email = users'[Len(users')].email
                /\ auth'.status = 201
      ]_vars

C5_Witness ==
    /\ Len(users) = 2
    /\ auth = JsonResponse("register", 409, [message |-> "Email already exists"])

----------------------------------------------------------------------------
(* Properties of the draft with the usage ledger.                          *)

\* The UsageLog rows of a user in the current calendar month, in a table.
MonthlyEvents(table, user_id) ==
    CopiesIn([user_id |-> user_id, timestamp |-> now], table)

Ceiling(user_id) == IF users[user_id].subscription_tier = "pro" THEN 50 ELSE 3

\* The step in which the handler serves a request.
Served == gen.returned_at = 0 /\ gen'.returned_at # 0

SuccessfulGeneration(st) == st.provider.kind = "text" /\ JsonLoads(st.provider.text).ok

\* The ledger's rule for the request of user_id served in this step.
LedgerRule(user_id) ==
    LET count == MonthlyEvents(usage, user_id)
    IN  /\ count >= Ceiling(user_id)
           => /\ gen'.status = 429
              /\ IsFailureBody(gen'.body)
              /\ usage' = usage
              /\ gen'.calls = <<>>
        /\ count < Ceiling(user_id)
           => /\ gen'.status # 429
              /\ SuccessfulGeneration(gen')
                 => /\ BagCardinality(usage') = BagCardinality(usage) + 1
                    /\ usage \sqsubseteq usage'
                    /\ MonthlyEvents(usage', user_id) = count + 1
              /\ ~SuccessfulGeneration(gen') => usage' = usage
        /\ (users[user_id].subscription_tier = "free" /\ count = 2 /\ SuccessfulGeneration(gen'))
           => MonthlyEvents(usage', user_id) = 3
        /\ (users[user_id].subscription_tier = "free" /\ count = 3) => gen'.status = 429

============================================================================
